---- MODULE Spec2Model ----
(***************************************************************************)
(* Model of the New Token Scanner (new_token_scanner.py): the polling      *)
(* loop main_loop, the SQLite-backed token store (init_db, already_seen,   *)
(* save_token), the contract probe (safe_contract_call, inspect_contract)  *)
(* and the snapshot export (export_csv_json).                              *)
(*                                                                         *)
(* Python's None is the empty tuple; a value v that is present is <<v>>.   *)
(***************************************************************************)
EXTENDS Integers, Sequences, FiniteSets, TLC

VARIABLES
    args,                  \* the parsed command line (parse_args)
    head,                  \* the chain's real head height (w3.eth.block_number)
    clock,                 \* seconds since start_time (time.time() - start_time)
    pc,                    \* position of the process in main_loop / __main__
    latest,                \* main_loop local: head height read in this tick
    target_block,          \* main_loop local: latest - confirmations + 1
    last_processed_block,  \* main_loop local: the watermark
    blk,                   \* main_loop local: height of the for loop
    txi,                   \* main_loop local: index of tx in block.transactions
    checksum_addr,         \* main_loop local: the candidate being inspected
    store,                 \* rows of table tokens, ORDER BY id
    csv_file,              \* contents of args.csv_output
    json_file,             \* contents of args.json_output
    info,                  \* result of the last stand-alone inspect_contract
    plausible,             \* plausibility computed for info
    probed,                \* the contract handed to the stand-alone inspect_contract
    failed,                \* the calls of that inspection that fail in transport
    run,                   \* history: number of the process run on this store
    H0,                    \* history: first head height read in this run
    wm0,                   \* history: first value the watermark had in this run
    requested,             \* history: heights passed to get_block in this run
    processed,             \* history: heights whose transactions were iterated
    handled,               \* history: heights whose transactions were all handled
    dirty,                 \* history: heights where a receipt or probe call failed
    handledPrev,           \* history: handled heights of the earlier runs
    dirtyPrev,             \* history: dirty heights of the earlier runs
    tickNo,                \* history: head reads that succeeded in this run
    otherSaves,            \* history: save_token calls of the other writer
    raced                  \* history: the loop called save_token for an address the store held

vars == <<args, head, clock, pc, latest, target_block, last_processed_block,
          blk, txi, checksum_addr, store, csv_file, json_file, info, plausible,
          probed, failed,
          run, H0, wm0, requested, processed, handled, dirty, handledPrev,
          dirtyPrev, tickNo, otherSaves, raced>>

loopVars == <<latest, target_block, last_processed_block, blk, txi, checksum_addr>>
fileVars == <<csv_file, json_file>>
probeVars == <<info, plausible, probed, failed>>
histVars == <<H0, wm0, requested, processed, handled, dirty, tickNo>>
prevVars == <<run, handledPrev, dirtyPrev>>

None == <<>>
Some(v) == <<v>>

\* ---------------------------------------------------------------- bounds
Head0 == 100          \* head height when the process starts
MaxHead == 102        \* the chain grows up to this height
MaxClock == 1         \* seconds the clock is followed for
MaxRuns == 2          \* process runs against one store
MaxOtherSaves == 2    \* save_token calls of a second writer on the same db

\* ---------------------------------------------------------------- the chain
DEFAULT_POLL == 4

Digits == <<"0", "1", "2", "3", "4", "5", "6", "7", "8", "9">>

RECURSIVE str(_)
\* Python's str() of a non-negative int
str(n) == IF n < 10 THEN Digits[n + 1] ELSE str(n \div 10) \o Digits[(n % 10) + 1]

\* str.lower() on the address strings of the model
lower(a) ==
    CASE a = "0xaB1" -> "0xab1"
      [] a = "0xCd2" -> "0xcd2"
      [] OTHER -> a

\* Web3.to_checksum_address: the EIP-55 form, or "ValueError" when the
\* argument is not an address
to_checksum_address(a) ==
    CASE lower(a) = "0xab1" -> "0xaB1"
      [] lower(a) = "0xcd2" -> "0xCd2"
      [] OTHER -> "ValueError"

\* the choices of --chain
Chains == {"eth", "bsc"}

\* a transaction of a block: to is None for a contract creation
Tx(to, b, i) == [to |-> to, hash |-> "0x" \o str(b) \o "a" \o str(i)]

\* block.transactions of the block at height b
Transactions(b) ==
    CASE b % 4 = 0 -> <<Tx(None, b, 1), Tx(None, b, 2)>>
      [] b % 4 = 1 -> <<Tx(Some("0xEe9"), b, 1), Tx(None, b, 2)>>
      [] b % 4 = 2 -> <<Tx(None, b, 1), Tx(None, b, 2)>>
      [] OTHER     -> <<Tx(Some("0xEe9"), b, 1), Tx(None, b, 2)>>

\* the receipt of the i-th transaction of block b, as the client library
\* presents it: the attribute contract_address and the key contractAddress
Receipt(b, i) ==
    CASE b % 4 = 0 /\ i = 1 -> [contract_address |-> Some("0xCd2"), contractAddress |-> Some("0xab1")]
      [] b % 4 = 0 /\ i = 2 -> [contract_address |-> Some("0xaB1"), contractAddress |-> None]
      [] b % 4 = 1 /\ i = 2 -> [contract_address |-> Some(""), contractAddress |-> Some("0xab1")]
      [] b % 4 = 2 /\ i = 1 -> [contract_address |-> None, contractAddress |-> None]
      [] b % 4 = 2 /\ i = 2 -> [contract_address |-> Some("0xzz"), contractAddress |-> None]
      [] b % 4 = 3 /\ i = 2 -> [contract_address |-> None, contractAddress |-> Some("0xcd2")]
      [] OTHER -> [contract_address |-> None, contractAddress |-> None]

\* what the contract at an address answers to the four calls, and the number
\* of Transfer logs it has emitted; None is a call that reverts
OnChain(a) ==
    IF lower(a) = "0xab1"
    THEN [name |-> Some("Foo"), symbol |-> Some("FOO"), decimals |-> Some(0),
          totalSupply |-> Some(1000), logs |-> 1]
    ELSE [name |-> Some(""), symbol |-> None, decimals |-> None,
          totalSupply |-> Some(5), logs |-> 0]

Calls == {"name", "symbol", "decimals", "totalSupply", "get_logs"}

\* an address without code: every call reverts and there are no logs
NoContract ==
    [name |-> None, symbol |-> None, decimals |-> None, totalSupply |-> None,
     logs |-> 0]

\* the transient failures of the probe's calls that the loop is run with
FailCases == {{}, {"name", "symbol", "decimals", "totalSupply"}, Calls}


\* block.timestamp and its ISO-8601 rendering
Timestamp(b) == 12 * b
isoformat(ts) == "1970-01-01T00:00:00+00:00 plus " \o str(ts) \o "s"

\* ---------------------------------------------------------------- the probe
\* one failed call that makes every later call of the inspection fail
safe_contract_call_Sticky(meta, fails, fn) ==
    IF (fails \ {"get_logs"}) # {} \/ meta[fn] = None
    THEN [ok |-> FALSE, val |-> None]
    ELSE [ok |-> TRUE, val |-> meta[fn]]

\* (success, value_or_error) of one eth_call; a call fails when the contract
\* reverts or when the transport does (fn \in fails)
safe_contract_call(meta, fails, fn) ==
    IF fn \in fails \/ meta[fn] = None
    THEN [ok |-> FALSE, val |-> None]
    ELSE [ok |-> TRUE, val |-> meta[fn]]

\* json.dumps of info["extra_json"]
ExtraCount(n) == "{\"transfer_log_count\": " \o str(n) \o "}"
ExtraError == "{\"transfer_log_error\": \"error\"}"

inspect_contract(meta, creation_block, found_block, fails) ==
    LET n == safe_contract_call(meta, fails, "name")
        s == safe_contract_call(meta, fails, "symbol")
        d == safe_contract_call(meta, fails, "decimals")
        t == safe_contract_call(meta, fails, "totalSupply")
        logsOk == "get_logs" \notin fails
        logs == IF creation_block <= found_block THEN meta.logs ELSE 0
    IN  [name |-> IF n.ok THEN n.val ELSE None,
         symbol |-> IF s.ok THEN s.val ELSE None,
         decimals |-> IF d.ok THEN d.val ELSE None,
         total_supply |-> IF t.ok THEN Some(str(t.val[1])) ELSE None,
         has_transfer_logs |-> IF logsOk THEN logs > 0 ELSE FALSE,
         extra_json |-> IF logsOk THEN ExtraCount(logs) ELSE ExtraError]

\* Python truth value of an optional string: None and "" are false
Truthy(x) == x # None /\ x # Some("")

\* decimals tested by truth value, as name and symbol are: 0 counts as absent
Plausible_TruthyDecimals(data) ==
    \/ Truthy(data.name)
    \/ Truthy(data.symbol)
    \/ (data.decimals # None /\ data.decimals # Some(0))
    \/ data.has_transfer_logs

\* plausible = any([name, symbol, decimals is not None, has_transfer_logs])
Plausible(data) ==
    \/ Truthy(data.name)
    \/ Truthy(data.symbol)
    \/ data.decimals # None
    \/ data.has_transfer_logs

\* ---------------------------------------------------------------- the store
\* a lookup that compares the address as given, without lower()
already_seen_AsGiven(conn, address) ==
    \E i \in DOMAIN conn : conn[i].address = address

\* SELECT 1 FROM tokens WHERE address = lower(address)
already_seen(conn, address) ==
    \E i \in DOMAIN conn : conn[i].address = lower(address)

\* a row that keeps the address as the caller spelled it
Row_AsGiven(data) ==
    [chain |-> data.chain,
     address |-> data.address,
     creation_block |-> data.creation_block,
     found_block |-> data.found_block,
     tx_hash |-> data.tx_hash,
     timestamp_utc |-> data.timestamp_utc,
     name |-> data.name,
     symbol |-> data.symbol,
     decimals |-> data.decimals,
     total_supply |-> data.total_supply,
     has_transfer_logs |-> IF data.has_transfer_logs THEN 1 ELSE 0,
     extra_json |-> data.extra_json]

\* the row that save_token binds to the INSERT statement
Row(data) ==
    [chain |-> data.chain,
     address |-> lower(data.address),
     creation_block |-> data.creation_block,
     found_block |-> data.found_block,
     tx_hash |-> data.tx_hash,
     timestamp_utc |-> data.timestamp_utc,
     name |-> data.name,
     symbol |-> data.symbol,
     decimals |-> data.decimals,
     total_supply |-> data.total_supply,
     has_transfer_logs |-> IF data.has_transfer_logs THEN 1 ELSE 0,
     extra_json |-> data.extra_json]

\* the column address is UNIQUE: a row whose address is taken violates it
ViolatesUnique(conn, row) ==
    \E i \in DOMAIN conn : conn[i].address = row.address

\* save_token on a table whose column address is not UNIQUE
save_token_NoUnique(conn, data) == Append(conn, Row(data))

\* INSERT OR REPLACE: the row that holds the address is deleted and the new
\* row is added under a new id
save_token_Replace(conn, data) ==
    LET Others(r) == r.address # Row(data).address
    IN  Append(SelectSeq(conn, Others), Row(data))

\* INSERT OR IGNORE INTO tokens ...; commit
save_token(conn, data) ==
    IF ViolatesUnique(conn, Row(data)) THEN conn ELSE Append(conn, Row(data))

\* ---------------------------------------------------------------- the export
headers == <<"chain", "address", "creation_block", "found_block", "tx_hash",
             "timestamp_utc", "name", "symbol", "decimals", "total_supply",
             "has_transfer_logs", "extra_json">>

\* csv.writer: None is written as the empty string, everything else as str()
CsvOpt(x) == IF x = None THEN "" ELSE x[1]
CsvOptInt(x) == IF x = None THEN "" ELSE str(x[1])

CsvRow(r) ==
    <<r.chain, r.address, str(r.creation_block), str(r.found_block), r.tx_hash,
      r.timestamp_utc, CsvOpt(r.name), CsvOpt(r.symbol), CsvOptInt(r.decimals),
      CsvOpt(r.total_supply), str(r.has_transfer_logs), r.extra_json>>

\* the lines of the csv file: the header row, then the rows ORDER BY id
CsvOf(conn) == <<headers>> \o [i \in DOMAIN conn |-> CsvRow(conn[i])]

\* the list of objects of the json file: dict(zip(headers, r)) per row
JsonOf(conn) == [i \in DOMAIN conn |-> conn[i]]

ExportOutcomes == {"ok", "json_fails"}

\* a csv file opened for appending: the new lines follow the old ones
ExportCsv_Append(conn, outcome, old) ==
    IF outcome = "csv_fails" THEN old ELSE old \o CsvOf(conn)

\* the two files after export_csv_json, which raises unless outcome = "ok"
ExportCsv(conn, outcome, old) == IF outcome = "csv_fails" THEN old ELSE CsvOf(conn)
ExportJson(conn, outcome, old) == IF outcome = "ok" THEN JsonOf(conn) ELSE old


\* ---------------------------------------------------------------- main_loop
Running == {"poll", "sleep", "fetch", "tx", "probe", "export"}
\* "crashed": an exception has left main_loop; "interrupted_crashed": the
\* export of the KeyboardInterrupt handler has raised
Terminal == {"stopped_count", "stopped_time", "interrupted", "crashed",
             "interrupted_crashed"}

\* the command lines the process is started with: a run duration is
\* combined with neither a start block nor a stop-at-count
ArgSpace ==
    {a \in [start_block : {None, Some(Head0 - 1)},
            confirmations : {0, 3},
            save_all : BOOLEAN,
            stop_at_count : {0, 1},
            run_duration : {0, 1},
            chain : {"eth"},
            poll_interval : {DEFAULT_POLL}] :
        a.run_duration = 0 \/ (a.stop_at_count = 0 /\ a.start_block = None)}

\* last_processed_block = args.start_block if args.start_block is not None else None
InitialWatermark(a) == a.start_block

\* the locals of main_loop before its first tick
LoopStart(a) ==
    [pc |-> "poll", latest |-> 0, target_block |-> 0,
     last_processed_block |-> InitialWatermark(a), blk |-> 0, txi |-> 0,
     checksum_addr |-> None]

Init ==
    /\ args \in ArgSpace
    /\ head = Head0
    /\ clock = 0
    /\ pc = LoopStart(args).pc
    /\ latest = LoopStart(args).latest
    /\ target_block = LoopStart(args).target_block
    /\ last_processed_block = LoopStart(args).last_processed_block
    /\ blk = LoopStart(args).blk
    /\ txi = LoopStart(args).txi
    /\ checksum_addr = LoopStart(args).checksum_addr
    /\ store = <<>>
    /\ csv_file = <<>>
    /\ json_file = <<>>
    /\ info = None
    /\ plausible = FALSE
    /\ probed = NoContract
    /\ failed = {}
    /\ run = 1
    /\ H0 = None
    /\ wm0 = InitialWatermark(args)
    /\ requested = {}
    /\ processed = <<>>
    /\ handled = {}
    /\ dirty = {}
    /\ handledPrev = {}
    /\ dirtyPrev = {}
    /\ tickNo = 0
    /\ otherSaves = 0
    /\ raced = FALSE

\* an unset watermark initialised five blocks behind the head
WatermarkAt_Behind(lpb, l) == IF lpb = None THEN l - 5 ELSE lpb[1]

\* the watermark a tick works with: latest - 1 when it is still unset
WatermarkAt(lpb, l) == IF lpb = None THEN l - 1 ELSE lpb[1]

\* a target one block closer to the head
TargetBlock_Plus2(l, confirmations) == l - confirmations + 2

\* target_block = latest - args.confirmations + 1
TargetBlock(l, confirmations) == l - confirmations + 1

\* a range that starts at the watermark itself
FirstBlk_AtWatermark(wm) == wm

\* the first height of range(last_processed_block + 1, target_block + 1)
FirstBlk(wm) == wm + 1

\* a range that includes target_block + 1
LastBlk_Inclusive(target) == target + 1

\* the last height of range(last_processed_block + 1, target_block + 1)
LastBlk(target) == target

\* the for loop over blk moves on after height b
NextBlk(b) ==
    IF b + 1 > LastBlk(target_block)
    THEN pc' = "export" /\ blk' = b
    ELSE pc' = "fetch" /\ blk' = b + 1

\* a failed head read that initialises the watermark from the last head seen
TickHeadFails_SetsWatermark ==
    /\ pc = "poll"
    /\ pc' = "sleep"
    /\ last_processed_block' = Some(WatermarkAt(last_processed_block, head))
    /\ UNCHANGED <<args, head, clock, latest, target_block, blk, txi,
                   checksum_addr, store, fileVars, probeVars, histVars,
                   prevVars, otherSaves, raced>>

\* w3.eth.block_number raises: sleep, continue
TickHeadFails ==
    /\ pc = "poll"
    /\ pc' = "sleep"
    /\ UNCHANGED <<args, head, clock, loopVars, store, fileVars, probeVars,
                   histVars, prevVars, otherSaves, raced>>

\* the head is read; the watermark is initialised; the range is chosen
Tick ==
    /\ pc = "poll"
    /\ LET l == head
           wm == WatermarkAt(last_processed_block, l)
           t == TargetBlock(l, args.confirmations)
       IN  /\ latest' = l
           /\ last_processed_block' = Some(wm)
           /\ H0' = IF H0 = None THEN Some(l) ELSE H0
           /\ wm0' = IF wm0 = None THEN Some(wm) ELSE wm0
           /\ tickNo' = IF tickNo < 2 THEN tickNo + 1 ELSE tickNo
           /\ IF l <= wm
              THEN pc' = "sleep" /\ UNCHANGED <<target_block, blk>>
              ELSE /\ target_block' = t
                   /\ IF t <= wm
                      THEN pc' = "sleep" /\ UNCHANGED blk
                      ELSE pc' = "fetch" /\ blk' = FirstBlk(wm)
    /\ UNCHANGED <<args, head, clock, txi, checksum_addr, store, fileVars,
                   probeVars, requested, processed, handled, dirty, prevVars,
                   otherSaves, raced>>

\* time.sleep(...) returns
Wake ==
    /\ pc = "sleep"
    /\ pc' = "poll"
    /\ UNCHANGED <<args, head, clock, loopVars, store, fileVars, probeVars,
                   histVars, prevVars, otherSaves, raced>>

\* w3.eth.get_block(blk, full_transactions=True) returns the block
FetchBlock ==
    /\ pc = "fetch"
    /\ blk <= head
    /\ requested' = requested \cup {blk}
    /\ processed' = Append(processed, blk)
    /\ txi' = 1
    /\ pc' = "tx"
    /\ UNCHANGED <<args, head, clock, latest, target_block, last_processed_block,
                   blk, checksum_addr, store, fileVars, probeVars, H0, wm0,
                   handled, dirty, tickNo, prevVars, otherSaves, raced>>

\* a failed fetch that advances the watermark like a handled block
AfterFetchFailure_Advance(lpb, b) == Some(b)

\* the watermark after the fetch of height b failed
AfterFetchFailure(lpb, b) == lpb

\* w3.eth.get_block raises (transport error, or no such block): continue
FetchBlockFails ==
    /\ pc = "fetch"
    /\ requested' = requested \cup {blk}
    /\ last_processed_block' = AfterFetchFailure(last_processed_block, blk)
    /\ NextBlk(blk)
    /\ UNCHANGED <<args, head, clock, latest, target_block, txi, checksum_addr,
                   store, fileVars, probeVars, H0, wm0, processed, handled,
                   dirty, tickNo, prevVars, otherSaves, raced>>

\* the key contractAddress looked up first, the attribute second
ContractAddress_KeyFirst(receipt) ==
    IF Truthy(receipt.contractAddress)
    THEN receipt.contractAddress
    ELSE receipt.contract_address

\* the created address of a receipt: the attribute contract_address, and the
\* key contractAddress when the attribute is None or empty
ContractAddress(receipt) ==
    IF Truthy(receipt.contract_address)
    THEN receipt.contract_address
    ELSE receipt.contractAddress

\* one transaction of the block, up to the already_seen check
HandleTx ==
    /\ pc = "tx"
    /\ txi <= Len(Transactions(blk))
    /\ LET tx == Transactions(blk)[txi]
       IN  \/ \* not a contract creation
              /\ tx.to # None
              /\ txi' = txi + 1
              /\ UNCHANGED <<pc, checksum_addr, dirty>>
           \/ \* get_transaction_receipt raises: continue
              /\ tx.to = None
              /\ txi' = txi + 1
              /\ dirty' = dirty \cup {blk}
              /\ UNCHANGED <<pc, checksum_addr>>
           \/ /\ tx.to = None
              /\ LET contract_address == ContractAddress(Receipt(blk, txi))
                 IN  IF ~Truthy(contract_address)
                     THEN /\ txi' = txi + 1
                          /\ UNCHANGED <<pc, checksum_addr, dirty>>
                     ELSE LET cs == to_checksum_address(contract_address[1])
                          IN  IF cs = "ValueError"
                              THEN /\ pc' = "crashed"
                                   /\ UNCHANGED <<txi, checksum_addr, dirty>>
                              ELSE IF already_seen(store, cs)
                              THEN /\ txi' = txi + 1
                                   /\ UNCHANGED <<pc, checksum_addr, dirty>>
                              ELSE /\ checksum_addr' = Some(cs)
                                   /\ pc' = "probe"
                                   /\ UNCHANGED <<txi, dirty>>
           \/ \* the SELECT of already_seen raises sqlite3.Error
              /\ tx.to = None
              /\ Truthy(ContractAddress(Receipt(blk, txi)))
              /\ to_checksum_address(ContractAddress(Receipt(blk, txi))[1]) # "ValueError"
              /\ pc' = "crashed"
              /\ UNCHANGED <<txi, checksum_addr, dirty>>
    /\ UNCHANGED <<args, head, clock, latest, target_block, last_processed_block,
                   blk, store, fileVars, probeVars, H0, wm0, requested,
                   processed, handled, tickNo, prevVars, otherSaves, raced>>

\* a dict whose found_block is the height of the creating block
Data_FoundAtCreation(a, addr, b, target, i) ==
    [chain |-> a.chain,
     address |-> addr,
     creation_block |-> b,
     found_block |-> b,
     tx_hash |-> Transactions(b)[txi].hash,
     timestamp_utc |-> isoformat(Timestamp(b)),
     name |-> i.name,
     symbol |-> i.symbol,
     decimals |-> i.decimals,
     total_supply |-> i.total_supply,
     has_transfer_logs |-> i.has_transfer_logs,
     extra_json |-> i.extra_json]

\* the dict data that main_loop builds for the candidate
Data(a, addr, b, target, i) ==
    [chain |-> a.chain,
     address |-> addr,
     creation_block |-> b,
     found_block |-> target,
     tx_hash |-> Transactions(b)[txi].hash,
     timestamp_utc |-> isoformat(Timestamp(b)),
     name |-> i.name,
     symbol |-> i.symbol,
     decimals |-> i.decimals,
     total_supply |-> i.total_supply,
     has_transfer_logs |-> i.has_transfer_logs,
     extra_json |-> i.extra_json]

\* a loop that saves plausible candidates only, whatever save_all is
ShouldSave_PlausibleOnly(a, data) == Plausible(data)

\* if plausible or save_all: save_token
ShouldSave(a, data) == Plausible(data) \/ a.save_all

\* stop_at_count > 0 and COUNT(1) >= stop_at_count
CountReached(a, conn) == a.stop_at_count > 0 /\ Len(conn) >= a.stop_at_count

\* the candidate is inspected, saved when plausible or save_all, and the
\* stop-at-count budget is checked; datetime.fromtimestamp (line 312) and
\* save_token (line 358) are called outside any try
ProbeAndSave ==
    /\ pc = "probe"
    /\ \/ /\ pc' = "crashed"
          /\ UNCHANGED <<txi, store, fileVars, dirty, raced>>
       \/ \E fails \in FailCases, outcome \in ExportOutcomes :
         LET i == inspect_contract(OnChain(checksum_addr[1]), blk, blk, fails)
             data == Data(args, checksum_addr[1], blk, target_block, i)
             conn == IF ShouldSave(args, data) THEN save_token(store, data) ELSE store
         IN  /\ store' = conn
             /\ raced' = (raced \/ (ShouldSave(args, data) /\ ViolatesUnique(store, Row(data))))
             /\ dirty' = IF fails = {} THEN dirty ELSE dirty \cup {blk}
             /\ IF ShouldSave(args, data) /\ CountReached(args, conn)
                THEN /\ csv_file' = ExportCsv(conn, outcome, csv_file)
                     /\ json_file' = ExportJson(conn, outcome, json_file)
                     /\ IF outcome = "ok"
                        THEN pc' = "stopped_count" /\ UNCHANGED txi
                        ELSE pc' = "tx" /\ txi' = txi + 1
                ELSE /\ outcome = "ok"
                     /\ pc' = "tx"
                     /\ txi' = txi + 1
                     /\ UNCHANGED fileVars
    /\ UNCHANGED <<args, head, clock, latest, target_block, last_processed_block,
                   blk, checksum_addr, probeVars, H0, wm0, requested, processed,
                   handled, tickNo, prevVars, otherSaves>>

\* the transactions of the block are exhausted: last_processed_block = blk
EndBlock ==
    /\ pc = "tx"
    /\ txi > Len(Transactions(blk))
    /\ last_processed_block' = Some(blk)
    /\ handled' = handled \cup {blk}
    /\ NextBlk(blk)
    /\ UNCHANGED <<args, head, clock, latest, target_block, txi, checksum_addr,
                   store, fileVars, probeVars, H0, wm0, requested, processed,
                   dirty, tickNo, prevVars, otherSaves, raced>>

\* getattr(args, "run_duration", 0) and elapsed >= args.run_duration
DurationReached(a, elapsed) == a.run_duration # 0 /\ elapsed >= a.run_duration

\* after the for loop: export, then the run-duration check, then sleep
EndTick ==
    /\ pc = "export"
    /\ \E outcome \in ExportOutcomes :
         /\ csv_file' = ExportCsv(store, outcome, csv_file)
         /\ json_file' = ExportJson(store, outcome, json_file)
         /\ pc' = IF outcome # "ok" THEN "crashed"
                  ELSE IF DurationReached(args, clock) THEN "stopped_time"
                  ELSE "sleep"
    /\ UNCHANGED <<args, head, clock, loopVars, store, probeVars, histVars,
                   prevVars, otherSaves, raced>>

\* KeyboardInterrupt propagates out of main_loop; __main__ exports and exits
Interrupt ==
    /\ pc \in Running
    /\ \E outcome \in ExportOutcomes :
         /\ csv_file' = ExportCsv(store, outcome, csv_file)
         /\ json_file' = ExportJson(store, outcome, json_file)
         /\ pc' = IF outcome = "ok" THEN "interrupted" ELSE "interrupted_crashed"
    /\ UNCHANGED <<args, head, clock, loopVars, store, probeVars, histVars,
                   prevVars, otherSaves, raced>>

\* ---------------------------------------------------------------- environment
\* the chain grows by one block. The process observes the head only when it
\* reads block_number (at "poll") and when it asks for a block (at "fetch"),
\* so the growth since its last observation is taken there
NewBlock ==
    /\ pc \in {"poll", "fetch"}
    /\ head < MaxHead
    /\ head' = head + 1
    /\ UNCHANGED <<args, clock, pc, loopVars, store, fileVars, probeVars,
                   histVars, prevVars, otherSaves, raced>>

\* a second passes. The process reads the clock only after the export of a
\* tick, and only when a run duration is configured
TimePasses ==
    /\ pc = "export"
    /\ args.run_duration # 0
    /\ clock < MaxClock
    /\ clock' = clock + 1
    /\ UNCHANGED <<args, head, pc, loopVars, store, fileVars, probeVars,
                   histVars, prevVars, otherSaves, raced>>

\* the steps of the process and of the chain
Step ==
    \/ TickHeadFails
    \/ Tick
    \/ Wake
    \/ FetchBlock
    \/ FetchBlockFails
    \/ HandleTx
    \/ ProbeAndSave
    \/ EndBlock
    \/ EndTick
    \/ Interrupt
    \/ NewBlock

Next == Step \/ TimePasses

Spec == Init /\ [][Next]_vars

\* ---------------------------------------------------------------- a second writer
\* the addresses another process hands to save_token
OtherAddrs == {"0xaB1", "0xab1"}

\* the dict another writer on the same database file passes to save_token
OtherData(c, a) ==
    [chain |-> c,
     address |-> a,
     creation_block |-> Head0,
     found_block |-> Head0,
     tx_hash |-> "0xother",
     timestamp_utc |-> isoformat(Timestamp(Head0)),
     name |-> Some("Other"),
     symbol |-> None,
     decimals |-> None,
     total_supply |-> None,
     has_transfer_logs |-> FALSE,
     extra_json |-> ExtraCount(0)]

\* another process calls save_token on the same database
OtherSave ==
    /\ otherSaves < MaxOtherSaves
    /\ \E c \in Chains, a \in OtherAddrs : store' = save_token(store, OtherData(c, a))
    /\ otherSaves' = otherSaves + 1
    /\ UNCHANGED <<args, head, clock, pc, loopVars, fileVars, probeVars,
                   histVars, prevVars, raced>>

InitShared ==
    /\ Init
    /\ args.start_block = None
    /\ args.confirmations = 3
    /\ args.run_duration = 0
    /\ args.stop_at_count = 0

\* no run duration is configured: the clock is not followed
NextShared == Step \/ OtherSave

SpecShared == InitShared /\ [][NextShared]_vars

\* ---------------------------------------------------------------- a second run
\* the process has exited and is started again with the same command line on
\* the same database and output files
Restart ==
    /\ pc \in Terminal
    /\ run < MaxRuns
    /\ run' = run + 1
    /\ handledPrev' = handledPrev \cup handled
    /\ dirtyPrev' = dirtyPrev \cup dirty
    /\ clock' = 0
    /\ pc' = LoopStart(args).pc
    /\ latest' = LoopStart(args).latest
    /\ target_block' = LoopStart(args).target_block
    /\ last_processed_block' = LoopStart(args).last_processed_block
    /\ blk' = LoopStart(args).blk
    /\ txi' = LoopStart(args).txi
    /\ checksum_addr' = LoopStart(args).checksum_addr
    /\ H0' = None
    /\ wm0' = InitialWatermark(args)
    /\ requested' = {}
    /\ processed' = <<>>
    /\ handled' = {}
    /\ dirty' = {}
    /\ tickNo' = 0
    /\ UNCHANGED <<args, head, store, fileVars, probeVars, otherSaves, raced>>

InitRerun ==
    /\ Init
    /\ args.start_block # None
    /\ args.confirmations = 3
    /\ args.run_duration = 0
    /\ args.stop_at_count = 0

\* no run duration is configured: the clock is not followed
NextRerun == Step \/ Restart

SpecRerun == InitRerun /\ [][NextRerun]_vars

\* the runs of a process that is started with a stop-at-count of 1
InitBudget ==
    /\ Init
    /\ args.start_block # None
    /\ args.confirmations = 3
    /\ args.run_duration = 0
    /\ args.stop_at_count > 0

SpecBudget == InitBudget /\ [][NextRerun]_vars

\* ---------------------------------------------------------------- a run duration
\* time passes while the process is in time.sleep
Sleeping ==
    /\ pc = "sleep"
    /\ clock < MaxClock
    /\ clock' = clock + 1
    /\ UNCHANGED <<args, head, pc, loopVars, store, fileVars, probeVars,
                   histVars, prevVars, otherSaves, raced>>

\* the steps of the process itself: neither the chain nor the operator
LoopStep ==
    \/ TickHeadFails
    \/ Tick
    \/ Wake
    \/ FetchBlock
    \/ FetchBlockFails
    \/ HandleTx
    \/ ProbeAndSave
    \/ EndBlock
    \/ EndTick

InitTime ==
    /\ Init
    /\ args.run_duration # 0
    /\ args.confirmations = 3

NextTime == Step \/ TimePasses \/ Sleeping

\* the process is never stuck in a call: its next step is always taken, and
\* a sleep that is slept again and again lets time pass
SpecTime ==
    /\ InitTime
    /\ [][NextTime]_vars
    /\ WF_vars(LoopStep)
    /\ SF_vars(Sleeping)

\* ---------------------------------------------------------------- the probe alone
\* the answers a contract can give to the four calls, and its Transfer logs
MetaSpace ==
    [name : {None, Some(""), Some("Foo")},
     symbol : {None, Some(""), Some("FOO")},
     decimals : {None, Some(0), Some(18)},
     totalSupply : {None, Some(0), Some(1000)},
     logs : {0, 1}]

InitProbe ==
    /\ args \in {a \in ArgSpace : a.start_block = None /\ a.confirmations = 3
                                  /\ ~a.save_all /\ a.stop_at_count = 0
                                  /\ a.run_duration = 0}
    /\ head = Head0
    /\ clock = 0
    /\ pc = LoopStart(args).pc
    /\ latest = LoopStart(args).latest
    /\ target_block = LoopStart(args).target_block
    /\ last_processed_block = LoopStart(args).last_processed_block
    /\ blk = LoopStart(args).blk
    /\ txi = LoopStart(args).txi
    /\ checksum_addr = LoopStart(args).checksum_addr
    /\ store = <<>>
    /\ csv_file = <<>>
    /\ json_file = <<>>
    /\ info = None
    /\ plausible = FALSE
    /\ probed \in MetaSpace
    /\ failed \in SUBSET Calls
    /\ run = 1
    /\ H0 = None
    /\ wm0 = None
    /\ requested = {}
    /\ processed = <<>>
    /\ handled = {}
    /\ dirty = {}
    /\ handledPrev = {}
    /\ dirtyPrev = {}
    /\ tickNo = 0
    /\ otherSaves = 0
    /\ raced = FALSE

\* inspect_contract is called on a contract, and plausibility computed as
\* main_loop computes it from the result
Inspect ==
    /\ info = None
    /\ info' = Some(inspect_contract(probed, Head0, Head0, failed))
    /\ plausible' = Plausible(info'[1])
    /\ UNCHANGED <<args, head, clock, pc, loopVars, store, fileVars, histVars,
                   prevVars, otherSaves, raced, probed, failed>>

NextProbe == Inspect

SpecProbe == InitProbe /\ [][NextProbe]_vars

\* ---------------------------------------------------------------- properties
TypeOK ==
    /\ pc \in Running \cup Terminal
    /\ head \in Head0..MaxHead
    /\ clock \in 0..MaxClock

SetMax(S) == CHOOSE x \in S : \A y \in S : y <= x

Processing == {"tx", "probe"}

\* C1: every height between the run's first watermark and the current
\* watermark was fetched and had all its transactions handled: a failed fetch
\* of b keeps the watermark below b
C1_NoHeightLost ==
    (wm0 # None /\ last_processed_block # None) =>
        \A b \in (wm0[1] + 1)..last_processed_block[1] : b \in handled

\* C2: uniqueness: at most one row of the store has a given (chain, address)
C2_Uniqueness ==
    \A i, j \in DOMAIN store :
        (store[i].chain = store[j].chain /\ store[i].address = store[j].address)
            => i = j

\* C2 witness: the loop has stored an address that it saw created, the other
\* writer has called save_token twice, and the store holds one row
C2_Witness ==
    /\ otherSaves >= 2
    /\ Len(store) = 1
    /\ store[1].address = "0xab1"
    /\ store[1].chain = "eth"
    /\ store[1].tx_hash # "0xother"
    /\ Head0 \in handled


C4_MonotonicWatermark ==
    [][/\ last_processed_block # None =>
            /\ last_processed_block' # None
            /\ last_processed_block'[1] >= last_processed_block[1]
       /\ handled' # {} => last_processed_block' = Some(SetMax(handled'))
       /\ (last_processed_block # None /\ last_processed_block' # last_processed_block) =>
            /\ pc = "tx"
            /\ txi > Len(Transactions(blk))
            /\ last_processed_block' = Some(blk)]_vars

\* C4 witness: the watermark has moved over two handled heights and a height
\* below it whose fetch failed
C4_Witness ==
    /\ Cardinality(handled) >= 2
    /\ \E b \in requested \ handled : b < last_processed_block[1]

\* C5: no height above latest - confirmations + 1 is fetched or processed
C5_ConfirmationBound ==
    pc \in {"fetch"} \cup Processing => blk <= latest - args.confirmations + 1

\* C5 witness: the height latest - confirmations + 1 itself is being processed
C5_Witness ==
    /\ pc = "probe"
    /\ args.confirmations = 3
    /\ blk = latest - 2

\* C6 as claimed: a height is processed only when the head read of the tick
\* is at least confirmations above it
C6_ConfirmationsOld ==
    pc \in Processing => latest - blk >= args.confirmations

\* C6 amended: a height is processed only when it has at least confirmations
\* confirmations, counting the block itself: the head read of the tick is at
\* least confirmations - 1 above it
C6_ConfirmationsCounted ==
    pc \in Processing => (latest - blk) + 1 >= args.confirmations

\* C6 witness: a block with exactly confirmations confirmations is processed
C6_Witness ==
    /\ pc = "tx"
    /\ args.confirmations = 3
    /\ (latest - blk) + 1 = 3

\* the first tick of the scenario of C7 has ended: no start height, three
\* confirmations, the head read was 100
C7_Scenario ==
    /\ args.start_block = None
    /\ args.confirmations = 3
    /\ tickNo = 1
    /\ latest = 100
    /\ pc \in {"sleep", "export"}

\* C7 as claimed: the first tick processes 96, 97, 98 and ends with the
\* watermark at 98
C7_FirstTick96To98 ==
    C7_Scenario => (processed = <<96, 97, 98>> /\ last_processed_block = Some(98))

\* C7 amended: the first tick sets the watermark to 99, processes no height
\* and ends with the watermark at 99
C7_FirstTickIdle ==
    C7_Scenario => (processed = <<>> /\ requested = {} /\ last_processed_block = Some(99))

\* C7 witness: the first tick of the scenario has ended
C7_Witness == C7_Scenario /\ pc = "sleep"

\* C8: without a start height the watermark starts at H0 - 1 for the first
\* head read H0, and no height below H0 is ever fetched
C8_NothingBeforeStart ==
    (args.start_block = None /\ H0 # None) =>
        /\ wm0 = Some(H0[1] - 1)
        /\ last_processed_block # None
        /\ last_processed_block[1] >= H0[1] - 1
        /\ \A b \in requested : b >= H0[1]
        /\ pc \in {"fetch"} \cup Processing => blk >= H0[1]

\* C8 witness: without a start height, the height H0 has been fetched
C8_Witness ==
    /\ args.start_block = None
    /\ H0 # None
    /\ H0[1] \in requested
    /\ Len(processed) >= 2

\* C9: with a start height S the first height the loop processes is S
C9_StartsAtStartBlock ==
    (args.start_block # None /\ processed # <<>>) =>
        processed[1] = args.start_block[1]

\* C10 as claimed: a probe result is plausible exactly when name, symbol or
\* decimals is present, whatever its value is, or has_transfer_logs is true
C10_PlausibleIffPresent ==
    info # None =>
        (plausible <=> \/ info[1].name # None
                       \/ info[1].symbol # None
                       \/ info[1].decimals # None
                       \/ info[1].has_transfer_logs)

\* C10 amended: a probe result is plausible exactly when name or symbol is
\* present and not the empty string, or decimals is present (0 included), or
\* has_transfer_logs is true; total_supply never counts
C10_PlausibleIffNonEmpty ==
    info # None =>
        (plausible <=> \/ info[1].name \notin {None, Some("")}
                       \/ info[1].symbol \notin {None, Some("")}
                       \/ info[1].decimals # None
                       \/ info[1].has_transfer_logs)

\* C10 witness: an empty name and decimals = 0, nothing else: plausible by its
\* decimals
C10_Witness ==
    /\ info # None
    /\ info[1].name = Some("")
    /\ info[1].symbol = None
    /\ info[1].decimals = Some(0)
    /\ info[1].total_supply = None
    /\ ~info[1].has_transfer_logs
    /\ plausible

\* plausibility of a stored row, by the rule of main_loop
RowPlausible(r) ==
    \/ Truthy(r.name)
    \/ Truthy(r.symbol)
    \/ r.decimals # None
    \/ r.has_transfer_logs = 1

\* C11: a probed candidate that the store does not hold is inserted exactly
\* when it is plausible or save_all is on: the step that probes a candidate
\* adds at most the candidate's row; with save_all it always adds it; without
\* save_all it adds it only when the row is plausible, and, when no call of
\* the probe failed, exactly when the contract's answers are plausible; in
\* default mode no row of the store is implausible
C11_InsertIffPlausibleOrSaveAll ==
    [][(/\ pc = "probe"
        /\ pc' \in {"tx", "stopped_count"}
        /\ \A i \in DOMAIN store : store[i].address # lower(checksum_addr[1]))
          => LET inserted == Len(store') = Len(store) + 1
                 clean == inspect_contract(OnChain(checksum_addr[1]), blk, blk, {})
             IN  /\ inserted \/ store' = store
                 /\ inserted =>
                      /\ SubSeq(store', 1, Len(store)) = store
                      /\ store'[Len(store')].address = lower(checksum_addr[1])
                      /\ RowPlausible(store'[Len(store')]) \/ args.save_all
                 /\ args.save_all => inserted
                 /\ blk \notin dirty' =>
                      (inserted <=> (Plausible(clean) \/ args.save_all))
                 /\ ~args.save_all =>
                      \A i \in DOMAIN store' : RowPlausible(store'[i])]_vars

\* C11 witness: in default mode, with no failed call, the two candidates of
\* block 100 were probed: the implausible one was not recorded, the
\* plausible one is the only row
C11_Witness ==
    /\ ~args.save_all
    /\ args.stop_at_count = 0
    /\ pc = "tx"
    /\ blk = 100
    /\ txi = 3
    /\ 100 \notin dirty
    /\ Len(store) = 1
    /\ store[1].address = "0xab1"

\* C12: started with stop_at_count = 1 and save_all on an empty store, the
\* loop records the first candidate it inspects, exports and halts: as soon
\* as the store holds a row, it holds one row, both files show it, and the
\* loop has stopped for the count budget with no later transaction handled
C12_HaltsAtFirstRecord ==
    (args.stop_at_count = 1 /\ args.save_all /\ store # <<>>) =>
        /\ Len(store) = 1
        /\ pc = "stopped_count"
        /\ csv_file = CsvOf(store)
        /\ json_file = JsonOf(store)

\* C13: the process terminates only after a final export that follows the
\* last change of the store: whenever the process has terminated, the two
\* files are the snapshot of the store
C13_TerminatedSnapshotIsStore ==
    pc \in Terminal => (csv_file = CsvOf(store) /\ json_file = JsonOf(store))

\* a call of export_csv_json has returned in this step: the export that ends
\* a tick, the export of the stop-at-count exit, the export on interrupt
ExportReturned ==
    \/ pc = "export" /\ pc' \in {"sleep", "stopped_time"}
    \/ pc \in Running /\ pc' \in {"stopped_count", "interrupted"}

\* the decimal renderings of the integers a row can hold
IntText == [n \in 0..(MaxHead + 1) |-> str(n)]

\* int(cell)
ReadInt(cell) == CHOOSE n \in DOMAIN IntText : IntText[n] = cell

\* a line of the csv file read back by the types of the schema: csv.reader
\* yields every cell as a string, an INTEGER cell is parsed, an empty INTEGER
\* cell is NULL
ReadCsvRow(line) ==
    [chain |-> line[1],
     address |-> line[2],
     creation_block |-> ReadInt(line[3]),
     found_block |-> ReadInt(line[4]),
     tx_hash |-> line[5],
     timestamp_utc |-> line[6],
     name |-> Some(line[7]),
     symbol |-> Some(line[8]),
     decimals |-> IF line[9] = "" THEN None ELSE Some(ReadInt(line[9])),
     total_supply |-> Some(line[10]),
     has_transfer_logs |-> ReadInt(line[11]),
     extra_json |-> line[12]]

\* a NULL text value seen as the empty string
Blank(x) == IF x = None THEN Some("") ELSE x

C15_StopsOnceElapsed ==
    DurationReached(args, clock) ~> (pc \in Terminal)

\* C16: an interrupt that arrives while a block is processed takes effect
\* after the last transaction of the block: when the process has ended by
\* an interrupt, every block whose transactions it began to iterate was
\* handled to its end
C16_InterruptFinishesBlock ==
    pc = "interrupted" => \A i \in DOMAIN processed : processed[i] \in handled

\* C17: no failure of an operation of a tick before its export leaves
\* main_loop as an exception: a step of the poll, of the block fetch, of a
\* transaction or of a candidate never ends the process by an exception
C17_NothingPropagates ==
    [][(pc \in {"poll", "sleep", "fetch", "tx", "probe"}) => pc' # "crashed"]_vars

\* C18: an export that fails at the end of a tick does not stop the loop:
\* the step that ends a tick never ends the process by an exception
C18_ExportFailureContinues ==
    [][(pc = "export") => pc' # "crashed"]_vars

\* the rows of the store for an address, whatever its spelling
RowsFor(conn, a) == {i \in DOMAIN conn : lower(conn[i].address) = lower(a)}

\* C19: two writers on one store that both passed already_seen for an
\* address and both call save_token for it, in either order, leave exactly
\* one row for it: a save_token of either writer for an address that the
\* store holds completes and changes nothing, a save_token for an address
\* that it does not hold appends one row, and no address ever has two rows
C19_RaceLeavesOneRecord ==
    [][/\ \A a \in OtherAddrs : Cardinality(RowsFor(store', a)) <= 1
       /\ (pc = "probe" /\ pc' = "tx" /\ RowsFor(store, checksum_addr[1]) # {})
            => store' = store
       /\ (raced' /\ ~raced)
            => /\ store' = store
               /\ Cardinality(RowsFor(store', checksum_addr[1])) = 1
       /\ otherSaves' = otherSaves + 1
            => /\ \E a \in OtherAddrs : Cardinality(RowsFor(store', a)) = 1
               /\ Len(store') <= Len(store) + 1
               /\ SubSeq(store', 1, Len(store)) = store
               /\ (\A a \in OtherAddrs : RowsFor(store, a) # {}) => store' = store]_vars

\* C19 witness: the loop passed already_seen for 0xaB1, the other writer
\* then saved the address, and the loop's save_token has returned: the store
\* holds the other writer's row alone
C19_Witness ==
    /\ raced
    /\ pc = "tx"
    /\ otherSaves >= 1
    /\ Len(store) = 1
    /\ store[1].address = "0xab1"
    /\ store[1].tx_hash = "0xother"

\* C20: with a stop-at-count N > 0, when a candidate has been inspected and
\* handled, inserted or not, and the store then holds N rows or more, the
\* loop has exported the store and stopped for the count budget in that
\* step; also in a run that started on a store of N rows or more
C20_StopsWheneverCountReached ==
    [][(/\ pc = "probe"
        /\ pc' \in Running \cup {"stopped_count"}
        /\ args.stop_at_count > 0
        /\ Len(store') >= args.stop_at_count)
          => /\ pc' = "stopped_count"
             /\ csv_file' = CsvOf(store')
             /\ json_file' = JsonOf(store')]_vars

\* C21: a tick whose head read fails changes nothing: a step from the poll
\* to the sleep that read no new head leaves the watermark (an unset one
\* stays unset), the store and the two files as they were; and the sleep is
\* followed by the next poll, unless the operator interrupts
C21_FailedHeadReadChangesNothing ==
    [][/\ (pc = "poll" /\ pc' = "sleep" /\ tickNo' = tickNo /\ latest' = latest)
            => /\ last_processed_block' = last_processed_block
               /\ store' = store
               /\ csv_file' = csv_file
               /\ json_file' = json_file
               /\ target_block' = target_block
       /\ (pc = "sleep" /\ pc' # "sleep")
            => pc' \in {"poll", "interrupted", "interrupted_crashed"}]_vars

\* C21 witness: the first head read of a run without a start height has
\* failed: the process sleeps and the watermark is still unset
C21_Witness ==
    /\ pc = "sleep"
    /\ tickNo = 0
    /\ H0 = None
    /\ args.start_block = None
    /\ last_processed_block = None

\* a creation transaction is about to be handled
AtCreationTx ==
    /\ pc = "tx"
    /\ txi <= Len(Transactions(blk))
    /\ Transactions(blk)[txi].to = None

\* C22: a creation transaction whose receipt cannot be fetched, or whose
\* receipt has no created address under either name, gives no candidate: the
\* step changes neither the store nor the files, starts no probe, and moves
\* to the next transaction of the same block; when a candidate is found it is
\* the attribute contract_address if that is non-empty, otherwise the key
\* contractAddress
C22_NoReceiptNoCandidate ==
    [][AtCreationTx =>
          LET r == Receipt(blk, txi)
              none == /\ r.contract_address \in {None, Some("")}
                      /\ r.contractAddress \in {None, Some("")}
              first == IF r.contract_address \in {None, Some("")}
                       THEN r.contractAddress
                       ELSE r.contract_address
          IN  /\ none => pc' \in {"tx", "interrupted", "interrupted_crashed"}
              /\ pc' = "tx" =>
                   /\ txi' = txi + 1
                   /\ blk' = blk
                   /\ store' = store
                   /\ csv_file' = csv_file
                   /\ json_file' = json_file
                   /\ checksum_addr' = checksum_addr
              /\ pc' = "probe" =>
                   /\ ~none
                   /\ checksum_addr' = Some(to_checksum_address(first[1]))
                   /\ store' = store
                   /\ txi' = txi]_vars

\* C22 witness: the block two above the first head was handled to its end:
\* its first creation has a receipt without an address, and the receipt of
\* its second creation could not be fetched
C22_Witness ==
    /\ (Head0 + 2) \in handled
    /\ (Head0 + 2) \in dirty
    /\ pc = "export"
    /\ blk = Head0 + 2

\* the eth_call of fn succeeded in the stand-alone inspection
CallSucceeded(fn) == fn \notin failed /\ probed[fn] # None

\* C23: inspect_contract returns for every combination of failing calls;
\* each of name, symbol, decimals and total_supply is present exactly when
\* its own call succeeded, and then holds what the call returned;
\* has_transfer_logs is true exactly when get_logs succeeded and returned a
\* log; the failure of one call changes no other field
C23_ProbeFieldsIndependent ==
    info # None =>
        /\ info[1].name = (IF CallSucceeded("name") THEN probed.name ELSE None)
        /\ info[1].symbol = (IF CallSucceeded("symbol") THEN probed.symbol ELSE None)
        /\ info[1].decimals = (IF CallSucceeded("decimals") THEN probed.decimals ELSE None)
        /\ (info[1].total_supply # None) <=> CallSucceeded("totalSupply")
        /\ CallSucceeded("totalSupply")
             => info[1].total_supply = Some(str(probed.totalSupply[1]))
        /\ info[1].has_transfer_logs <=> ("get_logs" \notin failed /\ probed.logs > 0)
        /\ (info[1].extra_json = ExtraError) <=> ("get_logs" \in failed)

\* C23 witness: symbol() and get_logs failed in transport on a contract that
\* answers every call and has a Transfer log: name, decimals and total_supply
\* are present, symbol is absent and has_transfer_logs is false
C23_Witness ==
    /\ info # None
    /\ failed = {"symbol", "get_logs"}
    /\ probed.name = Some("Foo")
    /\ probed.symbol = Some("FOO")
    /\ probed.decimals = Some(18)
    /\ probed.totalSupply = Some(1000)
    /\ probed.logs = 1
    /\ info[1].name = Some("Foo")
    /\ info[1].symbol = None
    /\ info[1].decimals = Some(18)
    /\ info[1].total_supply = Some("1000")
    /\ ~info[1].has_transfer_logs

\* C24: a row is never changed or removed once it is in the store: every
\* step leaves the rows that the store held, in their order, and adds at most
\* one row after them; a step that saves an address the store holds adds none
C24_AppendOnly ==
    [][/\ Len(store') \in {Len(store), Len(store) + 1}
       /\ \A i \in DOMAIN store : store'[i] = store[i]
       /\ Len(store') = Len(store) + 1
            => \A i \in DOMAIN store :
                  store[i].address # store'[Len(store')].address]_vars

\* C24 witness: the other writer's row for 0xab1 was in the store when the
\* loop called save_token for the address with its own data: the row is as
\* the other writer wrote it, after the row that was there before it
C24_Witness ==
    /\ raced
    /\ Len(store) = 2
    /\ store[1].address = "0xcd2"
    /\ store[2].address = "0xab1"
    /\ store[2].tx_hash = "0xother"
    /\ store[2].name = Some("Other")
    /\ store[2].creation_block = Head0

\* C25: the heights whose transactions the loop iterates form a strictly
\* increasing sequence over the whole run, within a tick and across ticks,
\* and the transactions of a block are handled one by one from the first in
\* the order of the block
C25_IncreasingHeights ==
    [][/\ processed' # processed =>
            /\ processed' = Append(processed, blk)
            /\ \A i \in DOMAIN processed : processed[i] < blk
            /\ txi' = 1
       /\ (pc \in Processing /\ pc' \in Processing) =>
            /\ blk' = blk
            /\ txi' = (IF pc' = "probe" THEN txi ELSE txi + 1)
            /\ txi <= Len(Transactions(blk))
       /\ (pc = "tx" /\ pc' \in {"fetch", "export"}) =>
            txi = Len(Transactions(blk)) + 1]_vars

\* C25 witness: in its second tick the loop handles the second transaction
\* of the third height it has processed
C25_Witness ==
    /\ tickNo = 2
    /\ Len(processed) = 3
    /\ processed[1] < processed[2]
    /\ processed[2] < processed[3]
    /\ pc = "tx"
    /\ blk = processed[3]
    /\ txi = 2

\* C26: the store is keyed by (chain, address): a row of another chain label
\* for the same address does not keep the loop from recording the address
\* under its own label. Once the loop has handled the first block without a
\* failed call, the store holds a row of the loop's chain label for the
\* plausible token 0xaB1 created in that block
C26_OneRecordPerChain ==
    (Head0 \in handled /\ Head0 \notin dirty) =>
        \E i \in DOMAIN store :
            store[i].chain = args.chain /\ store[i].address = "0xab1"

\* C27: a row that the loop stores has as creation_block the height of the
\* block that holds its creating transaction and as found_block the head
\* read of the tick minus confirmations plus one, so creation_block <=
\* found_block; the probe is run on the range from that block to that block:
\* without a failed call the row shows the Transfer logs of that range
C27_CreationAndFoundBlock ==
    [][(pc = "probe" /\ Len(store') = Len(store) + 1) =>
          LET r == store'[Len(store')]
              clean == inspect_contract(OnChain(checksum_addr[1]), blk, blk, {})
          IN  /\ r.creation_block = blk
              /\ r.tx_hash = Transactions(blk)[txi].hash
              /\ r.address = lower(checksum_addr[1])
              /\ r.found_block = latest - args.confirmations + 1
              /\ r.creation_block <= r.found_block
              /\ blk \notin dirty' =>
                   /\ r.extra_json = clean.extra_json
                   /\ r.has_transfer_logs = (IF clean.has_transfer_logs THEN 1 ELSE 0)
              /\ \A i \in DOMAIN store' :
                   store'[i].creation_block <= store'[i].found_block]_vars

\* C27 witness: a row was stored for a creation in a block below the safe
\* height of its tick
C27_Witness ==
    /\ pc = "tx"
    /\ Len(store) >= 1
    /\ store[Len(store)].creation_block = blk
    /\ store[Len(store)].found_block = target_block
    /\ blk < target_block

\* C28: with a stop-at-count N > 0 on a store that starts with fewer than N
\* rows and has a single writer, the store never holds more than N rows, and
\* the loop has stopped for the count budget whenever it holds N
C28_CountNeverExceeds ==
    args.stop_at_count > 0 =>
        /\ Len(store) <= args.stop_at_count
        /\ Len(store) = args.stop_at_count => pc = "stopped_count"

\* C29: whatever the confirmations value is, 0 included, every height the
\* loop asks the chain client for in a tick is at most the head height read
\* at the start of that tick
C29_NeverBeyondHead ==
    pc = "fetch" => blk <= latest

====
